---------------------------- MODULE Spec2Model ----------------------------
(***************************************************************************)
(* A model of md2pdf.py: the block classifier convert_md_to_html_body, the *)
(* inline formatter process_inline_formatting, and the leaf utilities      *)
(* escape_html and generate_id.                                            *)
(*                                                                         *)
(* Text is a sequence of characters; a character is a one-character        *)
(* string.  Two characters cannot be written inside a TLA+ string and are  *)
(* denoted by a token instead: the backtick (BT) and a Greek letter        *)
(* (GREEK, standing for any character of the ranges α-ω and Α-Ω).          *)
(***************************************************************************)
EXTENDS Integers, Sequences, FiniteSets, TLC

VARIABLES
    lines,           \* md_content.split('\n'): the input document
    i,               \* the cursor, 0-based as in the source
    html_lines,      \* the fragments appended so far
    frag_src,        \* history: for each fragment, the source lines it was built from
    in_code_block,
    in_math_block,
    code_language,
    pc,              \* "loop" inside the while loop, "done" after the return
    result,          \* the returned string
    input,           \* the argument of the pure function under check
    out,             \* its return value
    fpc,             \* "idle", "call" before the function runs, "ret" after
    source,          \* the file at md_file_path: [exists, readable, content]
    dest,            \* the file at output_html_path: [exists, content]
    dest0,           \* history: dest when convert_markdown_to_html is called
    md_content,
    html_content,
    ret,             \* what convert_markdown_to_html returned: "none" before it returns
    reports,         \* history: the number of error messages printed
    io_calls,        \* history: how often each file was opened: [read, write]
    fstep            \* the position in convert_markdown_to_html

vars == <<lines, i, html_lines, frag_src, in_code_block, in_math_block,
          code_language, pc, result, input, out, fpc,
          source, dest, dest0, md_content, html_content, ret, reports, io_calls, fstep>>

classifier_vars == <<lines, i, html_lines, frag_src, in_code_block, in_math_block,
                     code_language, pc, result>>

function_vars == <<input, out, fpc>>

file_vars == <<source, dest, dest0, md_content, html_content, ret, reports, io_calls, fstep>>

BT == "BACKTICK"

GREEK == "GREEK"

(***************************************************************************)
(* Bounds.                                                                 *)
(***************************************************************************)
MaxLines == 3

MaxEscLen == 4

MaxChunks == 5

(***************************************************************************)
(* Python string primitives used by the source.                            *)
(***************************************************************************)
IsSpace(c) == c \in {" ", "\t", "\n"}

RECURSIVE lstrip(_)
lstrip(s) == IF s # <<>> /\ IsSpace(Head(s)) THEN lstrip(Tail(s)) ELSE s

RECURSIVE rstrip(_)
rstrip(s) ==
    IF s # <<>> /\ IsSpace(s[Len(s)]) THEN rstrip(SubSeq(s, 1, Len(s) - 1)) ELSE s

strip(s) == rstrip(lstrip(s))

startswith(s, p) == Len(s) >= Len(p) /\ SubSeq(s, 1, Len(p)) = p

endswith(s, p) == Len(s) >= Len(p) /\ SubSeq(s, Len(s) - Len(p) + 1, Len(s)) = p

\* s[k:] with a 0-based k >= 0
From(s, k) == SubSeq(s, k + 1, Len(s))

\* s[a:-b] with a, b > 0
Slice(s, a, b) == SubSeq(s, a + 1, Len(s) - b)

\* p occurs in s at the 1-based position k
OccursAt(s, k, p) == k + Len(p) - 1 <= Len(s) /\ SubSeq(s, k, k + Len(p) - 1) = p

\* p in s
Contains(s, p) == \E k \in 1..Len(s) : OccursAt(s, k, p)

\* s.replace(old, new): every non-overlapping occurrence, left to right
RECURSIVE replace(_, _, _)
replace(s, old, new) ==
    IF s = <<>> THEN <<>>
    ELSE IF startswith(s, old)
         THEN new \o replace(From(s, Len(old)), old, new)
         ELSE <<Head(s)>> \o replace(Tail(s), old, new)

\* sep.join(parts)
RECURSIVE join(_, _)
join(sep, parts) ==
    IF parts = <<>> THEN <<>>
    ELSE IF Len(parts) = 1 THEN parts[1]
         ELSE parts[1] \o sep \o join(sep, Tail(parts))

(***************************************************************************)
(* escape_html                                                             *)
(***************************************************************************)
AMP_ENTITY == <<"&", "a", "m", "p", ";">>
LT_ENTITY == <<"&", "l", "t", ";">>
GT_ENTITY == <<"&", "g", "t", ";">>
QUOT_ENTITY == <<"&", "q", "u", "o", "t", ";">>
APOS_ENTITY == <<"&", "#", "3", "9", ";">>

\* A plausible slip: the ampersand replaced last, so that the entities inserted
\* by the other four replacements are escaped again.
escape_html_amp_last(text) ==
    LET t1 == replace(text, <<"<">>, LT_ENTITY)
        t2 == replace(t1, <<">">>, GT_ENTITY)
        t3 == replace(t2, <<"\"">>, QUOT_ENTITY)
        t4 == replace(t3, <<"'">>, APOS_ENTITY)
    IN  replace(t4, <<"&">>, AMP_ENTITY)

escape_html(text) ==
    LET t1 == replace(text, <<"&">>, AMP_ENTITY)
        t2 == replace(t1, <<"<">>, LT_ENTITY)
        t3 == replace(t2, <<">">>, GT_ENTITY)
        t4 == replace(t3, <<"\"">>, QUOT_ENTITY)
        t5 == replace(t4, <<"'">>, APOS_ENTITY)
    IN  t5

(***************************************************************************)
(* process_inline_formatting: the regular expressions.  Every pattern of   *)
(* the source is "opener, a run of characters that excludes the closer's  *)
(* first character, closer", so a match at a position is unique and        *)
(* re_match_end computes its last position (0: no match there).            *)
(***************************************************************************)
STRONG_OPEN == <<"<", "s", "t", "r", "o", "n", "g", ">">>

STRONG_CLOSE == <<"<", "/", "s", "t", "r", "o", "n", "g", ">">>

EM_OPEN == <<"<", "e", "m", ">">>

EM_CLOSE == <<"<", "/", "e", "m", ">">>

CODE_OPEN == <<"<", "c", "o", "d", "e", ">">>

CODE_CLOSE == <<"<", "/", "c", "o", "d", "e", ">">>

IMG_OPEN == <<"<", "i", "m", "g", " ", "s", "r", "c", "=", "\"">>

IMG_ALT == <<"\"", " ", "a", "l", "t", "=", "\"">>

IMG_STYLE ==
    <<"\"", " ", "s", "t", "y", "l", "e", "=", "\"", "m", "a", "x", "-", "w", "i", "d", "t",
      "h", ":", " ", "1", "0", "0", "%", ";", " ", "h", "e", "i", "g", "h", "t", ":", " ", "a",
      "u", "t", "o", ";", " ", "d", "i", "s", "p", "l", "a", "y", ":", " ", "b", "l", "o", "c",
      "k", ";", " ", "m", "a", "r", "g", "i", "n", ":", " ", "2", "0", "p", "x", " ", "a", "u",
      "t", "o", ";", " ", "b", "o", "r", "d", "e", "r", ":", " ", "1", "p", "x", " ", "s", "o",
      "l", "i", "d", " ", "#", "d", "d", "d", ";", " ", "b", "o", "r", "d", "e", "r", "-", "r",
      "a", "d", "i", "u", "s", ":", " ", "5", "p", "x", ";", " ", "b", "o", "x", "-", "s", "h",
      "a", "d", "o", "w", ":", " ", "0", " ", "2", "p", "x", " ", "8", "p", "x", " ", "r", "g",
      "b", "a", "(", "0", ",", "0", ",", "0", ",", "0", ".", "1", ")", ";", "\"", " ", "/",
      ">">>

A_OPEN == <<"<", "a", " ", "h", "r", "e", "f", "=", "\"">>

A_CLOSE == <<"<", "/", "a", ">">>

PLACEHOLDER_PREFIX ==
    <<"_", "_", "M", "A", "T", "H", "_", "P", "L", "A", "C", "E", "H", "O", "L", "D", "E", "R",
      "_">>

PLACEHOLDER_SUFFIX == <<"_", "_">>

MATH_INLINE_OPEN == <<"\\", "(">>

MATH_INLINE_CLOSE == <<"\\", ")">>

A_MID == <<"\"", ">">>

DIGITS == <<"0", "1", "2", "3", "4", "5", "6", "7", "8", "9">>

\* str(n) of a natural number, as the f-string formats math_counter
RECURSIVE str(_)
str(n) == IF n < 10 THEN <<DIGITS[n + 1]>> ELSE str(n \div 10) \o <<DIGITS[(n % 10) + 1]>>

\* the characters that [+\-*/=<>^_{}\\] and [α-ωΑ-Ω] accept; the alternative
\* \\[a-zA-Z]+ begins with a backslash, which the first class already accepts
MATH_CHARS == {"+", "-", "*", "/", "=", "<", ">", "^", "_", "{", "}", "\\", GREEK}

\* the first position j >= k of s holding a character of C, Len(s) + 1 if none
RECURSIVE Find(_, _, _)
Find(s, k, C) == IF k > Len(s) \/ s[k] \in C THEN k ELSE Find(s, k + 1, C)

At(s, k) == IF k >= 1 /\ k <= Len(s) THEN s[k] ELSE ""

re_match_end(pat, s, k) ==
    CASE pat = "math" ->
           LET q == Find(s, k + 1, {"$"})
           IN  IF s[k] = "$" /\ q <= Len(s) /\ \E j \in (k + 1)..(q - 1) : s[j] \in MATH_CHARS
               THEN q ELSE 0
      [] pat = "bold" ->
           LET r == Find(s, k + 2, {"*"})
           IN  IF s[k] = "*" /\ At(s, k + 1) = "*" /\ r > k + 2
                  /\ At(s, r) = "*" /\ At(s, r + 1) = "*"
               THEN r + 1 ELSE 0
      [] pat = "italic" ->
           LET r == Find(s, k + 1, {"*"})
           IN  IF s[k] = "*" /\ r > k + 1 /\ r <= Len(s) THEN r ELSE 0
      [] pat = "code" ->
           LET r == Find(s, k + 1, {BT})
           IN  IF s[k] = BT /\ r > k + 1 /\ r <= Len(s) THEN r ELSE 0
      [] pat = "image" ->
           LET r == Find(s, k + 2, {"]"})
               q == Find(s, r + 2, {")"})
           IN  IF s[k] = "!" /\ At(s, k + 1) = "[" /\ r <= Len(s) /\ At(s, r + 1) = "("
                  /\ q > r + 2 /\ q <= Len(s)
               THEN q ELSE 0
      [] pat = "link" ->
           LET r == Find(s, k + 1, {"]"})
               q == Find(s, r + 2, {")"})
           IN  IF s[k] = "[" /\ r > k + 1 /\ r <= Len(s) /\ At(s, r + 1) = "("
                  /\ q > r + 2 /\ q <= Len(s)
               THEN q ELSE 0

\* the matches re.sub finds from position k on: leftmost, non-overlapping, each
\* <<first, last>>
RECURSIVE re_finditer(_, _, _)
re_finditer(pat, s, k) ==
    IF k > Len(s) THEN <<>>
    ELSE IF re_match_end(pat, s, k) > 0
         THEN <<<<k, re_match_end(pat, s, k)>>>> \o re_finditer(pat, s, re_match_end(pat, s, k) + 1)
         ELSE re_finditer(pat, s, k + 1)

\* s with the n-th and later spans replaced by repls[n], ...
RECURSIVE Splice(_, _, _, _)
Splice(s, spans, repls, n) ==
    LET from == IF n = 1 THEN 1 ELSE spans[n - 1][2] + 1
    IN  IF n > Len(spans) THEN SubSeq(s, from, Len(s))
        ELSE SubSeq(s, from, spans[n][1] - 1) \o repls[n] \o Splice(s, spans, repls, n + 1)

placeholder(math_counter) == PLACEHOLDER_PREFIX \o str(math_counter) \o PLACEHOLDER_SUFFIX

\* match.group(1) of the n-th math match
math_group(s, span) == SubSeq(s, span[1] + 1, span[2] - 1)

\* the dict math_placeholders, in insertion order: <<placeholder, replacement>>
math_placeholders(text) ==
    LET spans == re_finditer("math", text, 1)
    IN  [n \in 1..Len(spans) |->
            <<placeholder(n - 1),
              MATH_INLINE_OPEN \o math_group(text, spans[n]) \o MATH_INLINE_CLOSE>>]

\* re.sub(math_pattern, protect_math, text)
protect_math(text) ==
    LET spans == re_finditer("math", text, 1)
    IN  Splice(text, spans, [n \in 1..Len(spans) |-> placeholder(n - 1)], 1)

sub_bold(text) ==
    LET spans == re_finditer("bold", text, 1)
    IN  Splice(text, spans,
               [n \in 1..Len(spans) |->
                   STRONG_OPEN \o SubSeq(text, spans[n][1] + 2, spans[n][2] - 2)
                       \o STRONG_CLOSE], 1)

sub_italic(text) ==
    LET spans == re_finditer("italic", text, 1)
    IN  Splice(text, spans,
               [n \in 1..Len(spans) |->
                   EM_OPEN \o SubSeq(text, spans[n][1] + 1, spans[n][2] - 1) \o EM_CLOSE], 1)

sub_code(text) ==
    LET spans == re_finditer("code", text, 1)
    IN  Splice(text, spans,
               [n \in 1..Len(spans) |->
                   CODE_OPEN \o SubSeq(text, spans[n][1] + 1, spans[n][2] - 1)
                       \o CODE_CLOSE], 1)

sub_image(text) ==
    LET spans == re_finditer("image", text, 1)
    IN  Splice(text, spans,
               [n \in 1..Len(spans) |->
                   LET r == Find(text, spans[n][1] + 2, {"]"})
                   IN  IMG_OPEN \o SubSeq(text, r + 2, spans[n][2] - 1) \o IMG_ALT
                           \o SubSeq(text, spans[n][1] + 2, r - 1) \o IMG_STYLE], 1)

sub_link(text) ==
    LET spans == re_finditer("link", text, 1)
    IN  Splice(text, spans,
               [n \in 1..Len(spans) |->
                   LET r == Find(text, spans[n][1] + 1, {"]"})
                   IN  A_OPEN \o SubSeq(text, r + 2, spans[n][2] - 1) \o A_MID
                           \o SubSeq(text, spans[n][1] + 1, r - 1) \o A_CLOSE], 1)

\* for placeholder, math_content in math_placeholders.items(): text.replace(...)
RECURSIVE restore_math(_, _, _)
restore_math(text, map, n) ==
    IF n > Len(map) THEN text
    ELSE restore_math(replace(text, map[n][1], map[n][2]), map, n + 1)

process_inline_formatting(text) ==
    restore_math(sub_link(sub_image(sub_code(sub_italic(sub_bold(protect_math(text)))))),
                 math_placeholders(text), 1)

(***************************************************************************)
(* generate_id                                                             *)
(***************************************************************************)
HEADING_DEFAULT ==
    <<"h", "e", "a", "d", "i", "n", "g">>

UPPER == <<"A", "B", "C", "D", "E", "F", "G", "H", "I", "J", "K", "L", "M",
           "N", "O", "P", "Q", "R", "S", "T", "U", "V", "W", "X", "Y", "Z">>

LOWER == <<"a", "b", "c", "d", "e", "f", "g", "h", "i", "j", "k", "l", "m",
           "n", "o", "p", "q", "r", "s", "t", "u", "v", "w", "x", "y", "z">>

IsDigit(c) == \E d \in 1..10 : DIGITS[d] = c

\* \w (the CJK range is part of \w already)
IsWord(c) ==
    \/ \E n \in 1..26 : c = UPPER[n] \/ c = LOWER[n]
    \/ IsDigit(c)
    \/ c \in {"_", GREEK}

lower_char(c) == IF \E n \in 1..26 : c = UPPER[n] THEN LOWER[CHOOSE n \in 1..26 : c = UPPER[n]] ELSE c

\* re.sub(r'-+', '-', s)
RECURSIVE collapse_hyphens(_)
collapse_hyphens(s) ==
    IF Len(s) < 2 THEN s
    ELSE IF s[1] = "-" /\ s[2] = "-" THEN collapse_hyphens(Tail(s))
         ELSE <<s[1]>> \o collapse_hyphens(Tail(s))

RECURSIVE strip_hyphens(_)
strip_hyphens(s) ==
    IF s # <<>> /\ Head(s) = "-" THEN strip_hyphens(Tail(s))
    ELSE IF s # <<>> /\ s[Len(s)] = "-" THEN strip_hyphens(SubSeq(s, 1, Len(s) - 1))
         ELSE s

generate_id(text) ==
    LET clean_text == strip_hyphens(collapse_hyphens(
                          [k \in 1..Len(text) |-> IF IsWord(text[k]) THEN text[k] ELSE "-"]))
    IN  IF clean_text # <<>> THEN [k \in 1..Len(clean_text) |-> lower_char(clean_text[k])]
        ELSE HEADING_DEFAULT

(***************************************************************************)
(* convert_md_to_html_body: the literal fragments.                         *)
(***************************************************************************)
PRE_CODE_OPEN ==
    <<"<", "p", "r", "e", ">", "<", "c", "o", "d", "e", " ", "c", "l", "a", "s", "s", "=",
      "\"", "l", "a", "n", "g", "u", "a", "g", "e", "-">>

PRE_CODE_OPEN_END == <<"\"", ">">>

PRE_CODE_CLOSE == <<"<", "/", "c", "o", "d", "e", ">", "<", "/", "p", "r", "e", ">">>

MATH_BLOCK_OPEN ==
    <<"<", "d", "i", "v", " ", "c", "l", "a", "s", "s", "=", "\"", "m", "a", "t", "h", "-",
      "b", "l", "o", "c", "k", "\"", ">", "$", "$">>

MATH_BLOCK_CLOSE == <<"$", "$", "<", "/", "d", "i", "v", ">">>

H_OPEN == <<"<", "h">>

H_ID == <<" ", "i", "d", "=", "\"">>

H_CLOSE_OPEN == <<"<", "/", "h">>

UL_OPEN == <<"<", "u", "l", ">">>

UL_CLOSE == <<"<", "/", "u", "l", ">">>

LI_OPEN == <<"<", "l", "i", ">">>

LI_CLOSE == <<"<", "/", "l", "i", ">">>

TABLE_OPEN == <<"<", "t", "a", "b", "l", "e", ">">>

TABLE_CLOSE == <<"<", "/", "t", "a", "b", "l", "e", ">">>

THEAD_OPEN == <<"<", "t", "h", "e", "a", "d", ">">>

THEAD_CLOSE == <<"<", "/", "t", "h", "e", "a", "d", ">">>

TBODY_OPEN == <<"<", "t", "b", "o", "d", "y", ">">>

TBODY_CLOSE == <<"<", "/", "t", "b", "o", "d", "y", ">">>

TR_OPEN == <<"<", "t", "r", ">">>

TR_CLOSE == <<"<", "/", "t", "r", ">">>

TH_OPEN == <<"<", "t", "h", ">">>

TH_CLOSE == <<"<", "/", "t", "h", ">">>

TD_OPEN == <<"<", "t", "d", ">">>

TD_CLOSE == <<"<", "/", "t", "d", ">">>

OL_OPEN == <<"<", "o", "l", ">">>

OL_CLOSE == <<"<", "/", "o", "l", ">">>

BLOCKQUOTE_OPEN == <<"<", "b", "l", "o", "c", "k", "q", "u", "o", "t", "e", ">">>

BLOCKQUOTE_CLOSE == <<"<", "/", "b", "l", "o", "c", "k", "q", "u", "o", "t", "e", ">">>

P_OPEN == <<"<", "p", ">">>

P_CLOSE == <<"<", "/", "p", ">">>

FENCE == <<BT, BT, BT>>

DOLLARS == <<"$", "$">>

(***************************************************************************)
(* The conditions of the if-chain of the main loop, in source order.       *)
(***************************************************************************)
is_fence(line) == startswith(line, FENCE)

is_single_line_math(line) ==
    startswith(strip(line), DOLLARS) /\ endswith(strip(line), DOLLARS) /\ Len(strip(line)) > 4

is_math_delimiter(line) == strip(line) = DOLLARS

is_heading(line) == startswith(line, <<"#">>)

is_ul_item(line) ==
    startswith(strip(line), <<"-", " ">>) \/ startswith(strip(line), <<"*", " ">>)

is_table_start(line) ==
    Contains(line, <<"|">>) /\ startswith(strip(line), <<"|">>) /\ endswith(strip(line), <<"|">>)

RECURSIVE skip_digits(_, _)
skip_digits(s, k) == IF k <= Len(s) /\ IsDigit(s[k]) THEN skip_digits(s, k + 1) ELSE k

\* the length of the prefix that ^\d+\.\s matches in s, 0 if it does not match
ol_prefix(s) ==
    LET p == skip_digits(s, 1)
    IN  IF p > 1 /\ At(s, p) = "." /\ IsSpace(At(s, p + 1)) THEN p + 1 ELSE 0

is_ol_item(line) == ol_prefix(strip(line)) > 0

is_quote(line) == startswith(strip(line), <<">">>)

is_blank(line) == strip(line) = <<>>

\* a slip in the order of the if-chain: the math branches tried before the
\* test of in_code_block
Rule_math_before_code(line, in_code, in_math) ==
    IF is_fence(line) THEN "fence"
    ELSE IF is_single_line_math(line) THEN "single_line_math"
    ELSE IF is_math_delimiter(line) THEN "math_delimiter"
    ELSE IF in_code THEN "code_line"
    ELSE IF in_math THEN "math_line"
    ELSE IF is_heading(line) THEN "heading"
    ELSE IF is_ul_item(line) THEN "ul"
    ELSE IF is_table_start(line) THEN "table"
    ELSE IF is_ol_item(line) THEN "ol"
    ELSE IF is_quote(line) THEN "quote"
    ELSE IF is_blank(line) THEN "blank"
    ELSE "paragraph"

\* the branch of the if-chain that a pass of the main loop takes for `line`
Rule(line, in_code, in_math) ==
    IF is_fence(line) THEN "fence"
    ELSE IF in_code THEN "code_line"
    ELSE IF is_single_line_math(line) THEN "single_line_math"
    ELSE IF is_math_delimiter(line) THEN "math_delimiter"
    ELSE IF in_math THEN "math_line"
    ELSE IF is_heading(line) THEN "heading"
    ELSE IF is_ul_item(line) THEN "ul"
    ELSE IF is_table_start(line) THEN "table"
    ELSE IF is_ol_item(line) THEN "ol"
    ELSE IF is_quote(line) THEN "quote"
    ELSE IF is_blank(line) THEN "blank"
    ELSE "paragraph"

\* a fragment with the (1-based) source lines lo..hi it was built from
Frag(f, lo, hi) == [f |-> f, lo |-> lo, hi |-> hi]

RECURSIVE Flatten(_)
Flatten(ss) == IF ss = <<>> THEN <<>> ELSE Head(ss) \o Flatten(Tail(ss))

(***************************************************************************)
(* Heading                                                                 *)
(***************************************************************************)
RECURSIVE heading_level(_, _)
heading_level(line, k) ==
    IF k <= Len(line) /\ line[k] = "#" THEN heading_level(line, k + 1) ELSE k - 1

heading_fragment(line) ==
    LET level == heading_level(line, 1)
        title_text == strip(From(line, level))
    IN  H_OPEN \o str(level) \o H_ID \o generate_id(title_text) \o <<"\"", ">">>
            \o process_inline_formatting(title_text) \o H_CLOSE_OPEN \o str(level) \o <<">">>

(***************************************************************************)
(* Unordered list                                                          *)
(***************************************************************************)
\* the cursor after `while i < len(lines) and <lines[i] is an item>`, from k
RECURSIVE ul_end(_, _)
ul_end(ls, k) == IF k < Len(ls) /\ is_ul_item(ls[k + 1]) THEN ul_end(ls, k + 1) ELSE k

ul_fragments(ls, k) ==
    LET e == ul_end(ls, k)
    IN  <<Frag(UL_OPEN, k + 1, k + 1)>>
        \o [n \in 1..(e - k) |->
               Frag(LI_OPEN \o process_inline_formatting(From(strip(ls[k + n]), 2)) \o LI_CLOSE,
                    k + n, k + n)]
        \o <<Frag(UL_CLOSE, e, e)>>

(***************************************************************************)
(* Table                                                                   *)
(***************************************************************************)
\* s.split(sep) for a one-character sep
RECURSIVE split(_, _)
split(s, sep) ==
    LET p == Find(s, 1, {sep})
    IN  IF p > Len(s) THEN <<s>> ELSE <<SubSeq(s, 1, p - 1)>> \o split(From(s, p), sep)

\* [cell.strip() for cell in row.split('|')[1:-1]]
table_cells(row) ==
    LET parts == split(row, "|")
    IN  [n \in 1..(Len(parts) - 2) |-> strip(parts[n + 1])]

\* the cursor after `while i < len(lines) and '|' in lines[i]`, from k
RECURSIVE table_end(_, _)
table_end(ls, k) ==
    IF k < Len(ls) /\ Contains(ls[k + 1], <<"|">>) THEN table_end(ls, k + 1) ELSE k

table_row_fragments(row, open, close, at) ==
    <<Frag(TR_OPEN, at, at)>>
    \o [n \in 1..Len(table_cells(row)) |->
           Frag(open \o process_inline_formatting(table_cells(row)[n]) \o close, at, at)]
    \o <<Frag(TR_CLOSE, at, at)>>

table_fragments(ls, k) ==
    LET e == table_end(ls, k)
        table_lines == [n \in 1..(e - k) |-> strip(ls[k + n])]
        data_start == IF Len(table_lines) > 1 /\ Contains(table_lines[2], <<"-", "-", "-">>)
                      THEN 2 ELSE 1
    IN  IF table_lines = <<>> THEN <<>>
        ELSE <<Frag(TABLE_OPEN, k + 1, k + 1), Frag(THEAD_OPEN, k + 1, k + 1)>>
             \o table_row_fragments(table_lines[1], TH_OPEN, TH_CLOSE, k + 1)
             \o <<Frag(THEAD_CLOSE, k + 1, k + 1)>>
             \o (IF Len(table_lines) > data_start
                 THEN <<Frag(TBODY_OPEN, k + data_start + 1, k + data_start + 1)>>
                      \o Flatten([n \in 1..(Len(table_lines) - data_start) |->
                                     table_row_fragments(table_lines[data_start + n],
                                                         TD_OPEN, TD_CLOSE, k + data_start + n)])
                      \o <<Frag(TBODY_CLOSE, e, e)>>
                 ELSE <<>>)
             \o <<Frag(TABLE_CLOSE, e, e)>>

(***************************************************************************)
(* Ordered list                                                            *)
(***************************************************************************)
is_continuation(next_line) ==
    startswith(next_line, <<" ", " ", " ">>) \/ startswith(next_line, <<"\t">>)

\* the inner loop over the lines that follow an item line: the cursor after it
RECURSIVE ol_inner_end(_, _)
ol_inner_end(ls, k) ==
    IF k >= Len(ls) THEN k
    ELSE IF is_blank(ls[k + 1]) THEN ol_inner_end(ls, k + 1)
    ELSE IF is_continuation(ls[k + 1]) THEN ol_inner_end(ls, k + 1)
    ELSE k

continuation_content(next_line) ==
    LET content == strip(next_line)
    IN  IF startswith(content, DOLLARS) /\ endswith(content, DOLLARS)
        THEN MATH_BLOCK_OPEN \o Slice(content, 2, 2) \o MATH_BLOCK_CLOSE
        ELSE process_inline_formatting(content)

\* what the inner loop appends to item_content, from k
RECURSIVE ol_inner_content(_, _)
ol_inner_content(ls, k) ==
    IF k >= Len(ls) THEN <<>>
    ELSE IF is_blank(ls[k + 1]) THEN ol_inner_content(ls, k + 1)
    ELSE IF is_continuation(ls[k + 1])
         THEN <<continuation_content(ls[k + 1])>> \o ol_inner_content(ls, k + 1)
    ELSE <<>>

ol_item_fragment(ls, k) ==
    LET current_line == strip(ls[k + 1])
        item_text == From(current_line, ol_prefix(current_line))
    IN  Frag(LI_OPEN \o process_inline_formatting(item_text)
                 \o Flatten(ol_inner_content(ls, k + 1)) \o LI_CLOSE,
             k + 1, ol_inner_end(ls, k + 1))

\* a slip that would use the inner loop as look-ahead only: the item's
\* continuation lines are read into the item but the cursor is left after the
\* item line
RECURSIVE ol_end_rewind(_, _)
ol_end_rewind(ls, k) ==
    IF k >= Len(ls) THEN k
    ELSE IF is_ol_item(ls[k + 1]) THEN ol_end_rewind(ls, k + 1)
    ELSE IF strip(ls[k + 1]) = <<>>
         THEN IF k + 1 < Len(ls) /\ is_ol_item(ls[k + 2]) THEN ol_end_rewind(ls, k + 1)
              ELSE k + 1
    ELSE k

\* the outer loop `while i < len(lines)` of the ordered list: the cursor after it
RECURSIVE ol_end(_, _)
ol_end(ls, k) ==
    IF k >= Len(ls) THEN k
    ELSE IF is_ol_item(ls[k + 1]) THEN ol_end(ls, ol_inner_end(ls, k + 1))
    ELSE IF strip(ls[k + 1]) = <<>>
         THEN IF k + 1 < Len(ls) /\ is_ol_item(ls[k + 2]) THEN ol_end(ls, k + 1) ELSE k + 1
    ELSE k

\* the <li> fragments the outer loop appends
RECURSIVE ol_items(_, _)
ol_items(ls, k) ==
    IF k >= Len(ls) THEN <<>>
    ELSE IF is_ol_item(ls[k + 1])
         THEN <<ol_item_fragment(ls, k)>> \o ol_items(ls, ol_inner_end(ls, k + 1))
    ELSE IF strip(ls[k + 1]) = <<>>
         THEN IF k + 1 < Len(ls) /\ is_ol_item(ls[k + 2]) THEN ol_items(ls, k + 1) ELSE <<>>
    ELSE <<>>

ol_fragments(ls, k) ==
    <<Frag(OL_OPEN, k + 1, k + 1)>> \o ol_items(ls, k)
        \o <<Frag(OL_CLOSE, ol_end(ls, k), ol_end(ls, k))>>

(***************************************************************************)
(* Blockquote                                                              *)
(***************************************************************************)
RECURSIVE quote_end(_, _)
quote_end(ls, k) == IF k < Len(ls) /\ is_quote(ls[k + 1]) THEN quote_end(ls, k + 1) ELSE k

quote_fragments(ls, k) ==
    LET e == quote_end(ls, k)
    IN  <<Frag(BLOCKQUOTE_OPEN, k + 1, k + 1)>>
        \o [n \in 1..(e - k) |->
               Frag(P_OPEN \o process_inline_formatting(strip(From(strip(ls[k + n]), 1)))
                        \o P_CLOSE, k + n, k + n)]
        \o <<Frag(BLOCKQUOTE_CLOSE, e, e)>>

(***************************************************************************)
(* Paragraph                                                               *)
(***************************************************************************)
\* a slip that would stop the paragraph at every line holding a pipe
paragraph_continues_no_pipe(line) ==
    /\ strip(line) # <<>>
    /\ ~startswith(line, <<"#">>)
    /\ ~startswith(strip(line), <<"-", " ">>)
    /\ ~startswith(strip(line), <<"*", " ">>)
    /\ ~is_ol_item(line)
    /\ ~startswith(strip(line), <<">">>)
    /\ ~startswith(line, FENCE)
    /\ ~Contains(line, <<"|">>)

\* the condition of the paragraph's while loop on lines[i]
paragraph_continues(line) ==
    /\ strip(line) # <<>>
    /\ ~startswith(line, <<"#">>)
    /\ ~startswith(strip(line), <<"-", " ">>)
    /\ ~startswith(strip(line), <<"*", " ">>)
    /\ ~is_ol_item(line)
    /\ ~startswith(strip(line), <<">">>)
    /\ ~startswith(line, FENCE)

RECURSIVE paragraph_end(_, _)
paragraph_end(ls, k) ==
    IF k < Len(ls) /\ paragraph_continues(ls[k + 1]) THEN paragraph_end(ls, k + 1) ELSE k

paragraph_fragments(ls, k) ==
    LET e == paragraph_end(ls, k)
        paragraph_lines == SubSeq(ls, k + 1, e)
    IN  IF paragraph_lines # <<>>
        THEN <<Frag(P_OPEN \o process_inline_formatting(join(<<" ">>, paragraph_lines))
                        \o P_CLOSE, k + 1, e)>>
        ELSE <<>>

(***************************************************************************)
(* The input documents: lines drawn from LineSet, which holds one line or  *)
(* more for every branch of the if-chain.                                  *)
(***************************************************************************)
LineSet ==
    { FENCE,                              \* a fence
      FENCE \o <<"p", "y">>,              \* a fence with a language tag
      DOLLARS,                            \* $$
      <<"$", "$", "x", "$", "$">>,        \* $$x$$
      <<"#", " ", "T">>,                  \* # T
      <<"-", " ", "a">>,                  \* - a
      <<"|", "a", "|">>,                  \* |a|
      <<"a", "|", "b">>,                  \* a|b
      <<"1", ".", " ", "a">>,             \* 1. a
      <<>>,                               \* the empty line
      <<" ", " ", " ", "b">>,             \* an indented line
      <<">", " ", "q">>,                  \* > q
      <<"a", "<", "b">> }                 \* a<b

Documents == UNION {[1..n -> LineSet] : n \in 1..MaxLines}

(***************************************************************************)
(* The main loop: one action per branch of the if-chain.                   *)
(***************************************************************************)
InLoop == pc = "loop" /\ i < Len(lines)

Line == lines[i + 1]

Taking(rule) == InLoop /\ Rule(Line, in_code_block, in_math_block) = rule

\* the cursor after the pass of the main loop that takes the branch `rule` at k
cursor_after(rule, ls, k) ==
    CASE rule = "ul" -> ul_end(ls, k)
      [] rule = "table" -> table_end(ls, k)
      [] rule = "ol" -> ol_end(ls, k)
      [] rule = "quote" -> quote_end(ls, k)
      [] rule = "paragraph" -> paragraph_end(ls, k)
      [] OTHER -> k + 1

\* html_lines.append, for each of frags in turn
Emit(frags) ==
    /\ html_lines' = html_lines \o [n \in 1..Len(frags) |-> frags[n].f]
    /\ frag_src' = frag_src \o [n \in 1..Len(frags) |-> <<frags[n].lo, frags[n].hi>>]

CodeFence ==
    /\ Taking("fence")
    /\ IF ~in_code_block
       THEN /\ in_code_block' = TRUE
            /\ code_language' = strip(From(Line, 3))
            /\ Emit(<<Frag(PRE_CODE_OPEN \o code_language' \o PRE_CODE_OPEN_END, i + 1, i + 1)>>)
       ELSE /\ in_code_block' = FALSE
            /\ code_language' = code_language
            /\ Emit(<<Frag(PRE_CODE_CLOSE, i + 1, i + 1)>>)
    /\ i' = cursor_after("fence", lines, i)
    /\ UNCHANGED <<lines, in_math_block, pc, result, function_vars, file_vars>>

CodeLine ==
    /\ Taking("code_line")
    /\ Emit(<<Frag(escape_html(Line), i + 1, i + 1)>>)
    /\ i' = cursor_after("code_line", lines, i)
    /\ UNCHANGED <<lines, in_code_block, in_math_block, code_language, pc, result,
                   function_vars, file_vars>>

SingleLineMath ==
    /\ Taking("single_line_math")
    /\ Emit(<<Frag(MATH_BLOCK_OPEN \o Slice(strip(Line), 2, 2) \o MATH_BLOCK_CLOSE,
                   i + 1, i + 1)>>)
    /\ i' = cursor_after("single_line_math", lines, i)
    /\ UNCHANGED <<lines, in_code_block, in_math_block, code_language, pc, result,
                   function_vars, file_vars>>

MathDelimiter ==
    /\ Taking("math_delimiter")
    /\ IF ~in_math_block
       THEN in_math_block' = TRUE /\ Emit(<<Frag(MATH_BLOCK_OPEN, i + 1, i + 1)>>)
       ELSE in_math_block' = FALSE /\ Emit(<<Frag(MATH_BLOCK_CLOSE, i + 1, i + 1)>>)
    /\ i' = cursor_after("math_delimiter", lines, i)
    /\ UNCHANGED <<lines, in_code_block, code_language, pc, result, function_vars, file_vars>>

MathLine ==
    /\ Taking("math_line")
    /\ Emit(<<Frag(Line, i + 1, i + 1)>>)
    /\ i' = cursor_after("math_line", lines, i)
    /\ UNCHANGED <<lines, in_code_block, in_math_block, code_language, pc, result,
                   function_vars, file_vars>>

Heading ==
    /\ Taking("heading")
    /\ Emit(<<Frag(heading_fragment(Line), i + 1, i + 1)>>)
    /\ i' = cursor_after("heading", lines, i)
    /\ UNCHANGED <<lines, in_code_block, in_math_block, code_language, pc, result,
                   function_vars, file_vars>>

UnorderedList ==
    /\ Taking("ul")
    /\ Emit(ul_fragments(lines, i))
    /\ i' = cursor_after("ul", lines, i)
    /\ UNCHANGED <<lines, in_code_block, in_math_block, code_language, pc, result,
                   function_vars, file_vars>>

Table ==
    /\ Taking("table")
    /\ Emit(table_fragments(lines, i))
    /\ i' = cursor_after("table", lines, i)
    /\ UNCHANGED <<lines, in_code_block, in_math_block, code_language, pc, result,
                   function_vars, file_vars>>

OrderedList ==
    /\ Taking("ol")
    /\ Emit(ol_fragments(lines, i))
    /\ i' = cursor_after("ol", lines, i)
    /\ UNCHANGED <<lines, in_code_block, in_math_block, code_language, pc, result,
                   function_vars, file_vars>>

Blockquote ==
    /\ Taking("quote")
    /\ Emit(quote_fragments(lines, i))
    /\ i' = cursor_after("quote", lines, i)
    /\ UNCHANGED <<lines, in_code_block, in_math_block, code_language, pc, result,
                   function_vars, file_vars>>

BlankLine ==
    /\ Taking("blank")
    /\ Emit(<<Frag(<<>>, i + 1, i + 1)>>)
    /\ i' = cursor_after("blank", lines, i)
    /\ UNCHANGED <<lines, in_code_block, in_math_block, code_language, pc, result,
                   function_vars, file_vars>>

Paragraph ==
    /\ Taking("paragraph")
    /\ Emit(paragraph_fragments(lines, i))
    /\ i' = cursor_after("paragraph", lines, i)
    /\ UNCHANGED <<lines, in_code_block, in_math_block, code_language, pc, result,
                   function_vars, file_vars>>

\* the loop condition fails: return '\n'.join(html_lines)
Return ==
    /\ pc = "loop"
    /\ ~(i < Len(lines))
    /\ pc' = "done"
    /\ result' = join(<<"\n">>, html_lines)
    /\ UNCHANGED <<lines, i, html_lines, frag_src, in_code_block, in_math_block,
                   code_language, function_vars, file_vars>>

Init ==
    /\ lines \in Documents
    /\ i = 0
    /\ html_lines = <<>>
    /\ frag_src = <<>>
    /\ in_code_block = FALSE
    /\ in_math_block = FALSE
    /\ code_language = <<>>
    /\ pc = "loop"
    /\ result = <<>>
    /\ input = <<>>
    /\ out = <<>>
    /\ fpc = "idle"
    /\ source = [exists |-> FALSE, readable |-> FALSE, content |-> <<>>]
    /\ dest = [exists |-> FALSE, content |-> <<>>]
    /\ dest0 = dest
    /\ md_content = <<>>
    /\ html_content = <<>>
    /\ ret = "none"
    /\ reports = 0
    /\ io_calls = [read |-> 0, write |-> 0]
    /\ fstep = "idle"

Next ==
    \/ CodeFence
    \/ CodeLine
    \/ SingleLineMath
    \/ MathDelimiter
    \/ MathLine
    \/ Heading
    \/ UnorderedList
    \/ Table
    \/ OrderedList
    \/ Blockquote
    \/ BlankLine
    \/ Paragraph
    \/ Return

Spec == Init /\ [][Next]_vars

(***************************************************************************)
(* The pure functions, each called once on an input drawn from a bounded   *)
(* set.                                                                    *)
(***************************************************************************)
EscAlphabet == {"&", "<", ">", "\"", "'", "a"}

EscInputs == UNION {[1..n -> EscAlphabet] : n \in 0..MaxEscLen}

\* pieces the inline inputs are concatenated from: single characters, a whole
\* link and a whole math span
InlineChunks ==
    { <<"$">>, <<"+">>, <<"a">>, <<"*">>, <<BT>>, <<"!">>,
      <<"[", "a", "]", "(", "b", ")">>,
      <<"$", "+", "$">> }

\* the text MATH_PLACEHOLDER_0__: placeholder 0 without its two leading
\* underscores, so that no input holds a whole placeholder token
PLACEHOLDER_TAIL == SubSeq(placeholder(0), 3, Len(placeholder(0)))

\* up to MaxChunks pieces, the last of which may be PLACEHOLDER_TAIL
InlineInputs ==
    {Flatten(cs) \o last :
        cs \in UNION {[1..n -> InlineChunks] : n \in 0..(MaxChunks - 1)},
        last \in InlineChunks \cup {<<>>, PLACEHOLDER_TAIL}}

InitFunction(inputs) ==
    /\ lines = <<>>
    /\ i = 0
    /\ html_lines = <<>>
    /\ frag_src = <<>>
    /\ in_code_block = FALSE
    /\ in_math_block = FALSE
    /\ code_language = <<>>
    /\ pc = "idle"
    /\ result = <<>>
    /\ input \in inputs
    /\ out = <<>>
    /\ fpc = "call"
    /\ source = [exists |-> FALSE, readable |-> FALSE, content |-> <<>>]
    /\ dest = [exists |-> FALSE, content |-> <<>>]
    /\ dest0 = dest
    /\ md_content = <<>>
    /\ html_content = <<>>
    /\ ret = "none"
    /\ reports = 0
    /\ io_calls = [read |-> 0, write |-> 0]
    /\ fstep = "idle"

CallEscapeHtml ==
    /\ fpc = "call"
    /\ out' = escape_html(input)
    /\ fpc' = "ret"
    /\ UNCHANGED <<classifier_vars, input, file_vars>>

CallProcessInlineFormatting ==
    /\ fpc = "call"
    /\ out' = process_inline_formatting(input)
    /\ fpc' = "ret"
    /\ UNCHANGED <<classifier_vars, input, file_vars>>

InitEscape == InitFunction(EscInputs)

NextEscape == CallEscapeHtml

SpecEscape == InitEscape /\ [][NextEscape]_vars

InitInline == InitFunction(InlineInputs)

NextInline == CallProcessInlineFormatting

SpecInline == InitInline /\ [][NextInline]_vars

(***************************************************************************)
(* convert_markdown_to_html and markdown_to_html.  The file system is the  *)
(* environment: whether a file exists, is readable or takes a write is its *)
(* choice, and a failing write leaves any proper prefix of the text in the *)
(* file.                                                                   *)
(***************************************************************************)
MaxFileLines == 2

\* the template texts are constants of several hundred lines; the model keeps
\* the first and the last line of each
html_template_start ==
    <<"<", "!", "D", "O", "C", "T", "Y", "P", "E", " ", "h", "t", "m", "l", ">", "\n",
      "<", "b", "o", "d", "y", ">", "\n">>

html_template_end ==
    <<"\n", "<", "/", "b", "o", "d", "y", ">", "\n", "<", "/", "h", "t", "m", "l", ">">>

\* the texts a source file may hold
FileContents == {join(<<"\n">>, d) : d \in UNION {[1..n -> LineSet] : n \in 1..MaxFileLines}}

OLD_CONTENT == <<"o", "l", "d">>

Failed ==
    /\ reports' = reports + 1
    /\ ret' = "False"
    /\ fstep' = "returned"

\* open(md_file_path) raises FileNotFoundError
ReadNotFound ==
    /\ fstep = "read"
    /\ ~source.exists
    /\ io_calls' = [io_calls EXCEPT !.read = @ + 1]
    /\ Failed
    /\ UNCHANGED <<classifier_vars, function_vars, source, dest, dest0, md_content,
                   html_content>>

\* open or read raises another exception
ReadError ==
    /\ fstep = "read"
    /\ source.exists
    /\ ~source.readable
    /\ io_calls' = [io_calls EXCEPT !.read = @ + 1]
    /\ Failed
    /\ UNCHANGED <<classifier_vars, function_vars, source, dest, dest0, md_content,
                   html_content>>

ReadOk ==
    /\ fstep = "read"
    /\ source.exists
    /\ source.readable
    /\ io_calls' = [io_calls EXCEPT !.read = @ + 1]
    /\ md_content' = source.content
    /\ fstep' = "convert"
    /\ UNCHANGED <<classifier_vars, function_vars, source, dest, dest0, html_content, ret,
                   reports>>

\* markdown_to_html calls convert_md_to_html_body, which sets up the main loop
EnterBody ==
    /\ fstep = "convert"
    /\ lines' = split(md_content, "\n")
    /\ i' = 0
    /\ html_lines' = <<>>
    /\ frag_src' = <<>>
    /\ in_code_block' = FALSE
    /\ in_math_block' = FALSE
    /\ code_language' = <<>>
    /\ pc' = "loop"
    /\ fstep' = "body"
    /\ UNCHANGED <<result, function_vars, source, dest, dest0, md_content, html_content, ret,
                   reports, io_calls>>

\* full_html = html_template_start + html_body + html_template_end
Combine ==
    /\ fstep = "body"
    /\ pc = "done"
    /\ html_content' = html_template_start \o result \o html_template_end
    /\ fstep' = "open"
    /\ UNCHANGED <<classifier_vars, function_vars, source, dest, dest0, md_content, ret,
                   reports, io_calls>>

\* open(output_html_path, 'w') raises
OpenDestFail ==
    /\ fstep = "open"
    /\ io_calls' = [io_calls EXCEPT !.write = @ + 1]
    /\ Failed
    /\ UNCHANGED <<classifier_vars, function_vars, source, dest, dest0, md_content,
                   html_content>>

\* open(output_html_path, 'w') creates the file or truncates it
OpenDestOk ==
    /\ fstep = "open"
    /\ io_calls' = [io_calls EXCEPT !.write = @ + 1]
    /\ dest' = [exists |-> TRUE, content |-> <<>>]
    /\ fstep' = "write"
    /\ UNCHANGED <<classifier_vars, function_vars, source, dest0, md_content, html_content,
                   ret, reports>>

\* f.write, or the flush when the with block closes the file, raises
WriteFail ==
    /\ fstep = "write"
    /\ \E n \in 0..(Len(html_content) - 1) :
          dest' = [exists |-> TRUE, content |-> SubSeq(html_content, 1, n)]
    /\ Failed
    /\ UNCHANGED <<classifier_vars, function_vars, source, dest0, md_content, html_content,
                   io_calls>>

WriteOk ==
    /\ fstep = "write"
    /\ dest' = [exists |-> TRUE, content |-> html_content]
    /\ fstep' = "written"
    /\ UNCHANGED <<classifier_vars, function_vars, source, dest0, md_content, html_content,
                   ret, reports, io_calls>>

ReturnTrue ==
    /\ fstep = "written"
    /\ ret' = "True"
    /\ fstep' = "returned"
    /\ UNCHANGED <<classifier_vars, function_vars, source, dest, dest0, md_content,
                   html_content, reports, io_calls>>

InitFile ==
    /\ lines = <<>>
    /\ i = 0
    /\ html_lines = <<>>
    /\ frag_src = <<>>
    /\ in_code_block = FALSE
    /\ in_math_block = FALSE
    /\ code_language = <<>>
    /\ pc = "idle"
    /\ result = <<>>
    /\ input = <<>>
    /\ out = <<>>
    /\ fpc = "idle"
    /\ source \in {[exists |-> FALSE, readable |-> FALSE, content |-> <<>>]}
                      \cup [exists : {TRUE}, readable : BOOLEAN, content : FileContents]
    /\ dest \in {[exists |-> FALSE, content |-> <<>>],
                 [exists |-> TRUE, content |-> OLD_CONTENT]}
    /\ dest0 = dest
    /\ md_content = <<>>
    /\ html_content = <<>>
    /\ ret = "none"
    /\ reports = 0
    /\ io_calls = [read |-> 0, write |-> 0]
    /\ fstep = "read"

NextFile ==
    \/ ReadNotFound
    \/ ReadError
    \/ ReadOk
    \/ EnterBody
    \/ Next
    \/ Combine
    \/ OpenDestFail
    \/ OpenDestOk
    \/ WriteFail
    \/ WriteOk
    \/ ReturnTrue

SpecFile == InitFile /\ [][NextFile]_vars

(***************************************************************************)
(* Properties of the block classifier.                                     *)
(***************************************************************************)
PassAdvances ==
    InLoop => cursor_after(Rule(Line, in_code_block, in_math_block), lines, i) > i

\* C1: the classifier is total.  In every state of the main loop a pass can
\* run and the pass that runs leaves the cursor at least one line further,
\* whichever branch it takes; a step of the loop either advances the cursor or
\* is the return.  With the cursor bounded by the number of lines the loop
\* ends after at most that many passes, and no branch raises an error.
C1_Totality ==
    /\ [](PassAdvances /\ (pc = "loop" => i <= Len(lines)))
    /\ [][pc = "loop" => (i' >= i + 1 /\ pc' = "loop") \/ (pc' = "done" /\ i' = i)]_vars

C1_Witness ==
    /\ pc = "done"
    /\ Len(lines) >= 3
    /\ \E k \in 1..Len(lines) : lines[k] = <<"a", "|", "b">>
    /\ Len(html_lines) >= 2

CursorInRange == i >= 0 /\ i <= Len(lines)

FragmentsInOrder ==
    /\ Len(frag_src) = Len(html_lines)
    /\ \A a \in 1..Len(frag_src) :
          /\ 1 <= frag_src[a][1]
          /\ frag_src[a][1] <= frag_src[a][2]
          /\ frag_src[a][2] <= i
    /\ \A a, b \in 1..Len(frag_src) : a < b => frag_src[a][2] <= frag_src[b][1]

\* C2: order preservation.  The cursor never decreases and never exceeds the
\* number of lines; fragments are only appended, each built from lines at or
\* after the cursor of the pass that appends it and before the cursor it
\* leaves, so the source lines of an earlier fragment never come after those
\* of a later one.
C2_OrderPreservation ==
    /\ [](CursorInRange /\ FragmentsInOrder)
    /\ [][/\ i' >= i
          /\ Len(html_lines') >= Len(html_lines)
          /\ SubSeq(html_lines', 1, Len(html_lines)) = html_lines
          /\ \A a \in (Len(frag_src) + 1)..Len(frag_src') : frag_src'[a][1] > i]_vars

C2_Witness ==
    /\ pc = "done"
    /\ Len(html_lines) >= 4
    /\ \E a \in 1..Len(frag_src) : frag_src[a][1] < frag_src[a][2]

\* C3: while code-block mode is active, a line that does not start with three
\* backticks yields exactly one fragment, escape_html of the raw line, and
\* changes neither mode flag, whatever the line and whatever the math flag.
C3_CodeBlockVerbatim ==
    [][(InLoop /\ in_code_block /\ ~is_fence(Line)) =>
          /\ html_lines' = Append(html_lines, escape_html(Line))
          /\ i' = i + 1
          /\ in_code_block'
          /\ in_math_block' = in_math_block]_vars

C3_Witness ==
    /\ in_code_block
    /\ in_math_block
    /\ i >= 3
    /\ lines[i] = DOLLARS
    /\ html_lines[Len(html_lines)] = DOLLARS

has_block_marker(line) ==
    \/ is_fence(line)
    \/ is_math_delimiter(line)
    \/ is_single_line_math(line)
    \/ is_heading(line)
    \/ is_ul_item(line)
    \/ is_table_start(line)
    \/ is_ol_item(line)
    \/ is_quote(line)
    \/ is_blank(line)

\* C4: a paragraph is built only from lines that match no higher-priority
\* block marker: the pass that takes the paragraph branch consumes no line
\* that is a fence, a math delimiter, a single-line math block, a heading, a
\* list item, a table row, a blockquote line or a blank line.
C4_ParagraphOnlyPlainLines ==
    [][Taking("paragraph") => \A k \in (i + 1)..i' : ~has_block_marker(lines[k])]_vars

\* C5: every line absorbed into a table contains a pipe and, trimmed, starts
\* and ends with a pipe, and the table ends at the first line that does not.
C5_TableRowsBounded ==
    [][Taking("table") =>
          /\ \A k \in (i + 1)..i' : is_table_start(lines[k])
          /\ (i' < Len(lines) => ~is_table_start(lines[i' + 1]))]_vars

\* C6: inside an ordered list a blank line that is not immediately followed by
\* an ordered-list-item line terminates the list: no line with content that
\* comes after such a blank line is taken into the list.
C6_BlankEndsOrderedList ==
    [][Taking("ol") =>
          \A k \in (i + 1)..i' :
              (is_blank(lines[k]) /\ ~(k < Len(lines) /\ is_ol_item(lines[k + 1])))
                  => \A m \in (k + 1)..i' : is_blank(lines[m])]_vars

\* C7: while multi-line math mode is active, a line that is not the closing $$
\* yields exactly one fragment, the raw line itself, and changes neither mode
\* flag.
C7_MathBlockVerbatim ==
    [][(InLoop /\ in_math_block /\ ~is_math_delimiter(Line)) =>
          /\ html_lines' = Append(html_lines, Line)
          /\ i' = i + 1
          /\ in_math_block'
          /\ in_code_block' = in_code_block]_vars

\* the number of fragments of frags that satisfy Opening / that equal closing
RECURSIVE CountPrefixed(_, _)
CountPrefixed(frags, prefix) ==
    IF frags = <<>> THEN 0
    ELSE (IF startswith(Head(frags), prefix) THEN 1 ELSE 0) + CountPrefixed(Tail(frags), prefix)

RECURSIVE CountEqual(_, _)
CountEqual(frags, f) ==
    IF frags = <<>> THEN 0
    ELSE (IF Head(frags) = f THEN 1 ELSE 0) + CountEqual(Tail(frags), f)

\* C12: balanced containers.  When the classifier returns, html_lines holds as
\* many closing code fragments as opening code fragments and as many closing
\* math-block fragments as opening ones, and neither mode is still active.
C12_BalancedContainers ==
    pc = "done" =>
        /\ CountPrefixed(html_lines, PRE_CODE_OPEN) = CountEqual(html_lines, PRE_CODE_CLOSE)
        /\ CountEqual(html_lines, MATH_BLOCK_OPEN) = CountEqual(html_lines, MATH_BLOCK_CLOSE)
        /\ ~in_code_block
        /\ ~in_math_block

(***************************************************************************)
(* Properties of the inline formatter and of escape_html.                  *)
(***************************************************************************)
\* s holds a token __MATH_PLACEHOLDER_<digits>__
has_placeholder_token(s) ==
    \E k \in 1..Len(s) :
        /\ OccursAt(s, k, PLACEHOLDER_PREFIX)
        /\ skip_digits(s, k + Len(PLACEHOLDER_PREFIX)) > k + Len(PLACEHOLDER_PREFIX)
        /\ OccursAt(s, skip_digits(s, k + Len(PLACEHOLDER_PREFIX)), PLACEHOLDER_SUFFIX)

\* C8: math protection round trip.  For an input in which the protected
\* pattern matches, the output holds the inner content of every matched span
\* between \( and \), and holds no placeholder token.
C8_MathRoundTrip ==
    fpc = "ret" =>
        LET spans == re_finditer("math", input, 1)
        IN  spans # <<>> =>
                /\ \A n \in 1..Len(spans) :
                       Contains(out, MATH_INLINE_OPEN \o math_group(input, spans[n])
                                         \o MATH_INLINE_CLOSE)
                /\ ~has_placeholder_token(out)

\* C9: inline code spans are opaque.  The text between a pair of backticks of
\* the input appears unchanged inside a code element of the output.
C9_CodeSpanOpaque ==
    fpc = "ret" =>
        LET spans == re_finditer("code", input, 1)
        IN  \A n \in 1..Len(spans) :
                Contains(out, CODE_OPEN \o SubSeq(input, spans[n][1] + 1, spans[n][2] - 1)
                                  \o CODE_CLOSE)

ENTITIES == {AMP_ENTITY, LT_ENTITY, GT_ENTITY, QUOT_ENTITY, APOS_ENTITY}

SPECIAL_CHARS == {"&", "<", ">", "\"", "'"}

entity_of(c) ==
    CASE c = "&" -> AMP_ENTITY
      [] c = "<" -> LT_ENTITY
      [] c = ">" -> GT_ENTITY
      [] c = "\"" -> QUOT_ENTITY
      [] c = "'" -> APOS_ENTITY
      [] OTHER -> <<c>>

\* C10: the output of escape_html holds no raw <, >, " or '; every & of it
\* begins one of the five entity references; it is the input with each special
\* character replaced by its entity once (no inserted entity is escaped
\* again); and a second pass changes it whenever the input holds a special
\* character.
C10_FullyEscaped ==
    fpc = "ret" =>
        /\ \A k \in 1..Len(out) : out[k] \notin {"<", ">", "\"", "'"}
        /\ \A k \in 1..Len(out) : out[k] = "&" => \E e \in ENTITIES : OccursAt(out, k, e)
        /\ out = Flatten([k \in 1..Len(input) |-> entity_of(input[k])])
        /\ (\E k \in 1..Len(input) : input[k] \in SPECIAL_CHARS) => escape_html(out) # out

C10_Witness ==
    /\ fpc = "ret"
    /\ input = <<"&", "<">>
    /\ out = AMP_ENTITY \o LT_ENTITY

(***************************************************************************)
(* Properties of convert_markdown_to_html.                                 *)
(***************************************************************************)
\* C11: file conversion is all-or-nothing.  When the call has returned True
\* the destination holds the complete document; when it has returned False
\* the failure was reported once, neither file was opened more than once, and
\* the destination is as it was before the call: no partial or truncated
\* output.
C11_AllOrNothing ==
    /\ ret = "True" => dest = [exists |-> TRUE, content |-> html_content]
    /\ ret = "False" =>
          /\ reports = 1
          /\ io_calls.read <= 1
          /\ io_calls.write <= 1
          /\ dest = dest0

=============================================================================
